---- MODULE Spec2Model ----
(***************************************************************************)
(* A model of capyCRYPT's operations layer (src/src/ops.rs) together with  *)
(* the SP 800-185 byte codec it is built on (src/src/sha3/aux_functions.rs) *)
(*                                                                         *)
(* Byte buffers.  A Vec<u8> is a sequence of runs.  The run                *)
(* [v |-> b, ks |-> K, n |-> k] stands for k consecutive bytes; byte j     *)
(* (0 <= j < k) of the run is the literal b XORed with, for every          *)
(* <<st, off>> in K, byte off+j of the string squeezed out of sponge state *)
(* st.  Literal bytes have K = {}.  Buffers are kept in normal form        *)
(* (no empty run, no two adjacent runs that can be merged), so that two    *)
(* buffers are equal exactly when they denote the same bytes, the          *)
(* squeezed bytes of different sponge inputs being independent unknowns.   *)
(***************************************************************************)
EXTENDS Integers, Sequences, FiniteSets, TLC

VARIABLES
    message,    \* the Message the operations are called on
    key,        \* the caller's KeyPair: None until KeyPair::new has returned
    pwbuf,      \* the caller's password buffer (a Vec<u8>)
    strength,   \* the security parameter d the caller passes
    outcome,    \* how the last call ended: "ok", "param" or "none"
    hist,       \* the calls made so far, each with the state it started in
    xof,        \* the last direct call of an XOF, with its arguments and result
    codec       \* the last direct call of an SP 800-185 encoding function

vars == <<message, key, pwbuf, strength, outcome, hist, xof, codec>>

----------------------------------------------------------------------------
\* Bounds of the model.

\* Number of operations performed on the Message in one run.
MaxOps == 3

\* Number of bytes of the longest message a run starts with.
MaxMsgLen == 2

----------------------------------------------------------------------------
\* Option<T>: None is the empty sequence, Some(x) the one-element sequence.

None == <<>>

Some(x) == <<x>>

IsSome(o) == o # <<>>

Unwrap(o) == o[1]

\* "let x = a; F(x)": F at the value of a, with a computed once however often
\* F uses it.
Let(a, F(_)) == CHOOSE r \in {F(x) : x \in {a}} : TRUE

Let2(a, b, F(_, _)) == CHOOSE r \in {F(x, y) : x \in {a}, y \in {b}} : TRUE

----------------------------------------------------------------------------
\* Byte buffers.

Run(v, ks, n) == [v |-> v, ks |-> ks, n |-> n]

Shift(ks, k) == {<<t[1], t[2] + k>> : t \in ks}

Mergeable(a, b) == a.v = b.v /\ b.ks = Shift(a.ks, a.n)

\* The bytes of runs lo..hi counted (the run lengths summed by halving the
\* range).
RECURSIVE RunLenSum(_, _, _)
RunLenSum(s, lo, hi) ==
    IF lo > hi THEN 0
    ELSE IF lo = hi THEN s[lo].n
    ELSE RunLenSum(s, lo, (lo + hi) \div 2)
             + RunLenSum(s, ((lo + hi) \div 2) + 1, hi)

\* Vec::len
ByteLen(s0) == Let(s0, LAMBDA s : RunLenSum(s, 1, Len(s)))

\* The normal form: no empty run, and neighbouring runs that continue one
\* another joined into one.
\* (starts: where a run begins that does not continue the run before it;
\* the k-th run of the result joins the runs from the k-th start up to the
\* next one.)
NthStart(starts, k) ==
    CHOOSE i \in starts : Cardinality({j \in starts : j <= i}) = k

JoinFrom(nz, starts, k) ==
    [nz[NthStart(starts, k)] EXCEPT
       !.n = RunLenSum(nz, NthStart(starts, k),
                       IF k = Cardinality(starts) THEN Len(nz)
                       ELSE NthStart(starts, k + 1) - 1)]

Norm(s) ==
    Let(SelectSeq(s, LAMBDA r : r.n # 0), LAMBDA nz :
    Let({i \in 1..Len(nz) : i = 1 \/ ~Mergeable(nz[i - 1], nz[i])}, LAMBDA starts :
        [k \in 1..Cardinality(starts) |-> JoinFrom(nz, starts, k)]))

\* vec![b0, b1, ...]
Lits(bs0) == Let(bs0, LAMBDA bs : [i \in 1..Len(bs) |-> Run(bs[i], {}, 1)])

Bytes(bs) == Norm(Lits(bs))

\* vec![0; n]
Zeros(n) == IF n = 0 THEN <<>> ELSE <<Run(0, {}, n)>>

\* Vec::append / extend_from_slice (of buffers in normal form: only the runs
\* that meet can merge)
Concat(a0, b0) ==
    Let2(a0, b0, LAMBDA a, b :
        IF b = <<>> THEN a
        ELSE IF a = <<>> THEN b
        ELSE IF Mergeable(a[Len(a)], b[1])
        THEN SubSeq(a, 1, Len(a) - 1)
                 \o <<[a[Len(a)] EXCEPT !.n = a[Len(a)].n + b[1].n]>> \o Tail(b)
        ELSE a \o b)

\* One run per byte.
Expand(s0) ==
    Let(s0, LAMBDA s :
        [i \in 1..ByteLen(s) |->
             Let(CHOOSE j \in 1..Len(s) :
                     RunLenSum(s, 1, j - 1) < i /\ i <= RunLenSum(s, 1, j),
                 LAMBDA j :
                     Run(s[j].v,
                         Shift(s[j].ks, i - 1 - RunLenSum(s, 1, j - 1)), 1))])

\* s[..k]
RECURSIVE TakeBytes(_, _)
TakeBytes(s0, k0) ==
    Let2(s0, k0, LAMBDA s, k :
        IF k = 0 \/ s = <<>> THEN <<>>
        ELSE IF Head(s).n <= k
        THEN <<Head(s)>> \o TakeBytes(Tail(s), k - Head(s).n)
        ELSE <<[Head(s) EXCEPT !.n = k]>>)

\* s[k..]
RECURSIVE DropBytes(_, _)
DropBytes(s0, k0) ==
    Let2(s0, k0, LAMBDA s, k :
        IF s = <<>> \/ k = 0 THEN s
        ELSE IF Head(s).n <= k THEN DropBytes(Tail(s), k - Head(s).n)
        ELSE <<Run(Head(s).v, Shift(Head(s).ks, k), Head(s).n - k)>> \o Tail(s))

IsLiteral(s) == \A i \in 1..Len(s) : s[i].ks = {}

\* a ^ b on u8
RECURSIVE BXor(_, _)
BXor(a, b) ==
    IF a = 0 THEN b
    ELSE IF b = 0 THEN a
    ELSE 2 * BXor(a \div 2, b \div 2) + (((a % 2) + (b % 2)) % 2)

XorByte(a, b) ==
    Run(BXor(a.v, b.v), (a.ks \ b.ks) \cup (b.ks \ a.ks), 1)

\* xor_bytes(a, b): a[i] ^= b[i] over the zipped bytes (the lengths are
\* asserted equal).
xor_bytes(a, b) ==
    Let2(Expand(a), Expand(b), LAMBDA ea, eb :
        Norm([i \in 1..Len(ea) |-> IF i <= Len(eb) THEN XorByte(ea[i], eb[i])
                                                          ELSE ea[i]]))

----------------------------------------------------------------------------
\* NIST SP 800-185 encodings.

\* write_u64::<BigEndian>(value)
\* (every number of the model is below 2^31, so the bytes above the low four
\* are zero)
BigEndian(value0, width) ==
    Let(value0, LAMBDA value :
        [i \in 1..width |->
             IF width - i > 3 THEN 0 ELSE (value \div (256 ^ (width - i))) % 256])

\* the loop "while index < vec.len() && vec[index] == 0 { vec.remove(index) }"
StripLeadingZeros(bs0) ==
    Let(bs0, LAMBDA bs :
    Let({i \in 1..Len(bs) : bs[i] # 0}, LAMBDA nonzero :
        IF nonzero = {} THEN <<>>
        ELSE SubSeq(bs, CHOOSE i \in nonzero : \A j \in nonzero : i <= j,
                    Len(bs))))

left_encode(value0) ==
    Let(value0, LAMBDA value :
        IF value = 0 THEN <<1, 0>>
        ELSE Let(StripLeadingZeros(BigEndian(value, 8)), LAMBDA vec :
                 <<Len(vec)>> \o vec))

\* the loop "while i < 8 && b[i] == 0 { i += 1 }", i counted from 1, b
\* indexed from 0
RECURSIVE RightEncodeScan(_, _)
RightEncodeScan(b, i) ==
    IF i < 8 /\ b[i + 1] = 0 THEN RightEncodeScan(b, i + 1) ELSE i

right_encode(value) ==
    IF value = 0 THEN <<0, 1>>
    ELSE Let(BigEndian(value, 8), LAMBDA b :
         Let(RightEncodeScan(b, 1), LAMBDA i :
             SubSeq([b EXCEPT ![1] = 9 - i], 1, 9 - i)))

\* encode_string(s): the encoded string, and s as the call leaves it
\* (Vec::append moves every byte out of s).
encode_string(s0) ==
    Let(s0, LAMBDA s :
        [out |-> Concat(Bytes(left_encode(ByteLen(s) * 8)), s), arg |-> <<>>])

\* byte_pad(input, w): the padded string (input is left empty as well).
byte_pad(input, w) ==
    Let(Concat(Bytes(left_encode(w)), input), LAMBDA z :
    Let(w - (ByteLen(z) % w), LAMBDA padlen :
        Concat(z, Zeros(padlen))))

----------------------------------------------------------------------------
\* The Keccak sponge (sha3/sponge.rs), as an ideal function: the absorbed
\* state is determined by the absorbed bytes and the capacity, and squeezing
\* bit_length bits yields the first bit_length / 8 bytes of the output
\* stream of that state at that rate.

sponge_absorb(m, capacity) == [in |-> m, cap |-> capacity]

sponge_squeeze(st, bit_length, rate) ==
    IF bit_length \div 8 = 0 THEN <<>>
    ELSE <<Run(0, {<<[in |-> st.in, cap |-> st.cap, rate |-> rate], 0>>},
               bit_length \div 8)>>

\* The number a string holding squeezed bytes denotes is a fixed function
\* of the string: of its literal parts and run lengths and, for the squeezed
\* parts, of the absorbed input, capacity and offset they come from.
OracleRange == 64

RunWeight(r) == r.v + (3 * r.n) + (11 * Cardinality(r.ks))

RECURSIVE InputWeight(_, _, _)
InputWeight(s, lo, hi) ==
    IF lo > hi THEN 0
    ELSE IF lo = hi THEN (lo * RunWeight(s[lo])) % OracleRange
    ELSE (InputWeight(s, lo, (lo + hi) \div 2)
              + InputWeight(s, ((lo + hi) \div 2) + 1, hi)) % OracleRange

RECURSIVE OracleKs(_)
OracleKs(ks) ==
    IF ks = {} THEN 0
    ELSE Let(CHOOSE t \in ks : TRUE, LAMBDA t :
             InputWeight(t[1].in, 1, Len(t[1].in)) + t[1].cap + (7 * t[2])
                 + OracleKs(ks \ {t}))

RECURSIVE OracleInt(_)
OracleInt(s) ==
    IF s = <<>> THEN 0
    ELSE (RunWeight(Head(s)) + OracleKs(Head(s).ks) + (5 * OracleInt(Tail(s))))
             % OracleRange

----------------------------------------------------------------------------
\* Big integers <-> bytes (byte_utils::bytes_to_big, big_to_bytes).

\* acc followed by n bytes of value v, read as one big-endian number.
RECURSIVE RunValue(_, _, _)
RunValue(acc, v, n) ==
    IF n = 0 \/ (acc = 0 /\ v = 0) THEN acc
    ELSE RunValue((acc * 256) + v, v, n - 1)

RECURSIVE BigEndianValue(_, _)
BigEndianValue(s, acc) ==
    IF s = <<>> THEN acc
    ELSE BigEndianValue(Tail(s), RunValue(acc, Head(s).v, Head(s).n))

bytes_to_big(s0) ==
    Let(s0, LAMBDA s :
        IF IsLiteral(s) THEN BigEndianValue(s, 0) ELSE OracleInt(s))

big_to_bytes(i) == Bytes(StripLeadingZeros(BigEndian(i, 8)))

\* get_random_bytes(n): n bytes from the random source; the draw rnd fixes
\* the last byte, the others are zero.
get_random_bytes(n, rnd) == Concat(Zeros(n - 1), Bytes(<<rnd>>))

\* str::as_bytes for the function-name and customization strings in use.
as_bytes(str) ==
    CASE str = "" -> <<>>
      [] str = "KMAC" -> <<75, 77, 65, 67>>
      [] str = "S" -> <<83>>
      [] str = "SKE" -> <<83, 75, 69>>
      [] str = "SKA" -> <<83, 75, 65>>
      [] str = "K" -> <<75>>
      [] str = "PK" -> <<80, 75>>
      [] str = "PKE" -> <<80, 75, 69>>
      [] str = "PKA" -> <<80, 75, 65>>
      [] str = "N" -> <<78>>
      [] str = "T" -> <<84>>

----------------------------------------------------------------------------
\* The XOF family of ops.rs.  Every function returns a record: out is the
\* returned Vec<u8>, arg is the caller's &mut Vec<u8> as the call leaves it,
\* err tells whether the call panicked ("Value must be either 256 or 512").

\* shake(n, d)
shake(n0, d) ==
    Let(n0, LAMBDA n :
    Let(136 - (ByteLen(n) % 136), LAMBDA bytes_to_pad :
    Let(IF bytes_to_pad = 1 THEN Concat(n, Bytes(<<134>>))
        ELSE Concat(n, Bytes(<<6>>)), LAMBDA n2 :
        [out |-> sponge_squeeze(sponge_absorb(n2, 2 * d), d, 1600 - (2 * d)),
         arg |-> n2, err |-> FALSE])))

\* cshake(x, l, n, s, d)
cshake(x, l, n, s, d) ==
    Let(IF as_bytes(n) = <<>> /\ as_bytes(s) = <<>> THEN shake(x, l).arg
        ELSE x, LAMBDA x2 :
    Let(Concat(encode_string(Bytes(as_bytes(n))).out,
               encode_string(Bytes(as_bytes(s))).out), LAMBDA encoded_n :
        IF d \notin {256, 512}
        THEN [out |-> <<>>, arg |-> x2, err |-> TRUE]
        ELSE
    Let(IF d = 256 THEN 168 ELSE 136, LAMBDA bytepad_w :
    Let(Concat(Concat(byte_pad(encoded_n, bytepad_w), x2), Bytes(<<4>>)),
        LAMBDA out :
        [out |-> sponge_squeeze(sponge_absorb(out, d), l, 1600 - d),
         arg |-> <<>>, err |-> FALSE]))))

\* kmac_xof with the line "bp.append(&mut x.to_owned())" left out: the data x
\* is not absorbed.
kmac_xof_without_x(k, x, l, s, d) ==
    Let(encode_string(k), LAMBDA encode_k :
        IF d \notin {256, 512}
        THEN [arg |-> encode_k.arg, out |-> <<>>, err |-> TRUE]
        ELSE
    Let(IF d = 256 THEN 168 ELSE 136, LAMBDA bytepad_w :
    Let(Concat(byte_pad(encode_k.out, bytepad_w),
               Bytes(right_encode(0))), LAMBDA bp :
        [arg |-> encode_k.arg,
         out |-> cshake(bp, l, "KMAC", s, d).out, err |-> FALSE])))

\* kmac_xof(k, x, l, s, d)
kmac_xof(k, x, l, s, d) ==
    Let(encode_string(k), LAMBDA encode_k :
        IF d \notin {256, 512}
        THEN [arg |-> encode_k.arg, out |-> <<>>, err |-> TRUE]
        ELSE
    Let(IF d = 256 THEN 168 ELSE 136, LAMBDA bytepad_w :
    Let(Concat(Concat(byte_pad(encode_k.out, bytepad_w), x),
               Bytes(right_encode(0))), LAMBDA bp :
        [arg |-> encode_k.arg,
         out |-> cshake(bp, l, "KMAC", s, d).out, err |-> FALSE])))

----------------------------------------------------------------------------
\* Edwards curves (curves.rs): x^2 + y^2 = 1 + d x^2 y^2 over F_p with
\* cofactor 4.  The two curve identifiers carry small parameter sets of the
\* same shape as the real ones: a prime p, a non-square d, a prime subgroup
\* order r and a generator of order r.  A point is [x, y, curve].

Curves == {"E448", "E521"}

CurveP(curve) == IF curve = "E448" THEN 19 ELSE 29

CurveD(curve) == IF curve = "E448" THEN 2 ELSE 3

order(curve) == IF curve = "E448" THEN 5 ELSE 7

Generator(curve) ==
    IF curve = "E448" THEN [x |-> 4, y |-> 14, curve |-> curve]
    ELSE [x |-> 5, y |-> 4, curve |-> curve]

Neutral(curve) == [x |-> 0, y |-> 1, curve |-> curve]

ModInv(a0, p) == Let(a0, LAMBDA a : CHOOSE i \in 1..(p - 1) : (i * a) % p = 1)

\* P + Q by the unified addition formula; a point is only ever added to a
\* point of its own curve.
PointAdd(P0, Q0) ==
    Let2(P0, Q0, LAMBDA P, Q :
        IF P.curve # Q.curve THEN P
        ELSE
    Let2(CurveP(P.curve), CurveD(P.curve) * P.x * Q.x * P.y * Q.y, LAMBDA p, t :
        [x |-> (((P.x * Q.y) + (P.y * Q.x)) * ModInv((1 + t) % p, p)) % p,
         y |-> (((P.y * Q.y) - (P.x * Q.x)) * ModInv((1 - t) % p, p)) % p,
         curve |-> P.curve]))

\* P * k by double-and-add over the bits of k, the lowest first.
RECURSIVE DoubleAndAdd(_, _)
DoubleAndAdd(P0, k0) ==
    Let2(P0, k0, LAMBDA P, k :
        IF k = 0 THEN Neutral(P.curve)
        ELSE IF k % 2 = 0 THEN DoubleAndAdd(PointAdd(P, P), k \div 2)
        ELSE PointAdd(P, DoubleAndAdd(PointAdd(P, P), k \div 2)))

\* P * k.  A curve has 4 * order(curve) points, so every point times that
\* number is the neutral point and k counts modulo it.
ScalarMul(P0, k) ==
    Let(P0, LAMBDA P : DoubleAndAdd(P, k % (4 * order(P.curve))))

\* Integer % of rug: the remainder has the sign of the dividend.
Rem(a0, b) == Let(a0, LAMBDA a : IF a >= 0 THEN a % b ELSE 0 - ((0 - a) % b))

SELECTED_CURVE == "E448"

----------------------------------------------------------------------------
\* The operations on a Message.  A Message is
\* [msg, digest, sym_nonce, asym_nonce, sig, op_result]; every operation
\* returns the Message as the call leaves it and how the call ended:
\*   "ok"     it returned,
\*   "param"  it panicked on the security parameter d,
\*   "none"   it panicked unwrapping a field that is None.

Message_new(data) ==
    [msg |-> data, digest |-> None, sym_nonce |-> None, asym_nonce |-> None,
     sig |-> None, op_result |-> None]

HashStrengths == {224, 256, 384, 512}

\* Hashable::compute_sha3_hash
compute_sha3_hash(self, d) ==
    IF d \in HashStrengths
    THEN Let(shake(self.msg, d), LAMBDA r :
             [self |-> [self EXCEPT !.msg = r.arg, !.digest = Some(r.out)],
              end |-> "ok"])
    ELSE [self |-> self, end |-> "param"]

\* Hashable::compute_tagged_hash; pw is the caller's buffer as it is left
compute_tagged_hash(self, pw, s, d) ==
    IF d \in HashStrengths
    THEN Let(kmac_xof(pw, self.msg, d, s, d), LAMBDA r :
             IF r.err THEN [self |-> self, pw |-> r.arg, end |-> "param"]
             ELSE [self |-> [self EXCEPT !.digest = Some(r.out)],
                   pw |-> r.arg, end |-> "ok"])
    ELSE [self |-> self, pw |-> pw, end |-> "param"]

\* pw_encrypt with the tag computed after the XOR: over the ciphertext.
pw_encrypt_tag_of_ciphertext(self, pw, d, rnd) ==
    Let(get_random_bytes(512, rnd), LAMBDA z :
    Let(kmac_xof(Concat(z, pw), <<>>, 1024, "S", d), LAMBDA ke_ka :
        IF ke_ka.err THEN [self |-> self, end |-> "param"]
        ELSE
    Let2(TakeBytes(ke_ka.out, 64), DropBytes(ke_ka.out, 64), LAMBDA ke, ka :
    Let(kmac_xof(ke, <<>>, ByteLen(self.msg) * 8, "SKE", d), LAMBDA c :
        IF c.err THEN [self |-> self, end |-> "param"]
        ELSE
    Let(xor_bytes(self.msg, c.out), LAMBDA data :
    Let(kmac_xof(ka, data, 512, "SKA", d), LAMBDA t :
        IF t.err THEN [self |-> [self EXCEPT !.msg = data], end |-> "param"]
        ELSE [self |-> [self EXCEPT !.digest = Some(t.out),
                                    !.msg = data,
                                    !.sym_nonce = Some(z)],
              end |-> "ok"]))))))

\* PwEncryptable::pw_encrypt; rnd is the draw of get_random_bytes
pw_encrypt(self, pw, d, rnd) ==
    Let(get_random_bytes(512, rnd), LAMBDA z :
    Let(kmac_xof(Concat(z, pw), <<>>, 1024, "S", d), LAMBDA ke_ka :
        IF ke_ka.err THEN [self |-> self, end |-> "param"]
        ELSE
    Let2(TakeBytes(ke_ka.out, 64), DropBytes(ke_ka.out, 64), LAMBDA ke, ka :
    Let(kmac_xof(ka, self.msg, 512, "SKA", d), LAMBDA t :
        IF t.err THEN [self |-> self, end |-> "param"]
        ELSE
    Let(kmac_xof(ke, <<>>, ByteLen(self.msg) * 8, "SKE", d), LAMBDA c :
        IF c.err
        THEN [self |-> [self EXCEPT !.digest = Some(t.out)], end |-> "param"]
        ELSE [self |-> [self EXCEPT !.digest = Some(t.out),
                                    !.msg = xor_bytes(self.msg, c.out),
                                    !.sym_nonce = Some(z)],
              end |-> "ok"])))))

\* pw_decrypt with the recomputed tag compared with itself instead of with
\* the stored digest.
pw_decrypt_unchecked(self, pw, d) ==
    IF ~IsSome(self.sym_nonce) THEN [self |-> self, end |-> "none"]
    ELSE
    Let(Concat(Unwrap(self.sym_nonce), pw), LAMBDA z_pw :
    Let(kmac_xof(z_pw, <<>>, 1024, "S", d), LAMBDA ke_ka :
        IF ke_ka.err THEN [self |-> self, end |-> "param"]
        ELSE
    Let2(TakeBytes(ke_ka.out, 64), DropBytes(ke_ka.out, 64), LAMBDA ke, ka :
    Let(kmac_xof(ke, <<>>, ByteLen(self.msg) * 8, "SKE", d), LAMBDA m :
        IF m.err THEN [self |-> self, end |-> "param"]
        ELSE
    Let(xor_bytes(self.msg, m.out), LAMBDA data :
    Let(kmac_xof(ka, data, 512, "SKA", d), LAMBDA new_t :
        IF new_t.err
        THEN [self |-> [self EXCEPT !.msg = data], end |-> "param"]
        ELSE IF ~IsSome(self.digest)
        THEN [self |-> [self EXCEPT !.msg = data], end |-> "none"]
        ELSE [self |-> [self EXCEPT !.msg = data,
                           !.op_result = Some(new_t.out = new_t.out)],
              end |-> "ok"]))))))

\* pw_decrypt with the password appended to the stored nonce itself instead
\* of to a copy of it (self.sym_nonce.as_mut() in place of clone()): the
\* stored nonce is left as kmac_xof leaves its key buffer.
pw_decrypt_on_stored_nonce(self, pw, d) ==
    IF ~IsSome(self.sym_nonce) THEN [self |-> self, end |-> "none"]
    ELSE
    Let(Concat(Unwrap(self.sym_nonce), pw), LAMBDA z_pw :
    Let(kmac_xof(z_pw, <<>>, 1024, "S", d), LAMBDA ke_ka :
    Let([self EXCEPT !.sym_nonce = Some(ke_ka.arg)], LAMBDA self2 :
        IF ke_ka.err THEN [self |-> self2, end |-> "param"]
        ELSE
    Let2(TakeBytes(ke_ka.out, 64), DropBytes(ke_ka.out, 64), LAMBDA ke, ka :
    Let(kmac_xof(ke, <<>>, ByteLen(self.msg) * 8, "SKE", d), LAMBDA m :
        IF m.err THEN [self |-> self2, end |-> "param"]
        ELSE
    Let(xor_bytes(self.msg, m.out), LAMBDA data :
    Let(kmac_xof(ka, data, 512, "SKA", d), LAMBDA new_t :
        IF new_t.err
        THEN [self |-> [self2 EXCEPT !.msg = data], end |-> "param"]
        ELSE IF ~IsSome(self.digest)
        THEN [self |-> [self2 EXCEPT !.msg = data], end |-> "none"]
        ELSE [self |-> [self2 EXCEPT !.msg = data,
                           !.op_result = Some(Unwrap(self.digest) = new_t.out)],
              end |-> "ok"])))))))

\* PwEncryptable::pw_decrypt
pw_decrypt(self, pw, d) ==
    IF ~IsSome(self.sym_nonce) THEN [self |-> self, end |-> "none"]
    ELSE
    Let(Concat(Unwrap(self.sym_nonce), pw), LAMBDA z_pw :
    Let(kmac_xof(z_pw, <<>>, 1024, "S", d), LAMBDA ke_ka :
        IF ke_ka.err THEN [self |-> self, end |-> "param"]
        ELSE
    Let2(TakeBytes(ke_ka.out, 64), DropBytes(ke_ka.out, 64), LAMBDA ke, ka :
    Let(kmac_xof(ke, <<>>, ByteLen(self.msg) * 8, "SKE", d), LAMBDA m :
        IF m.err THEN [self |-> self, end |-> "param"]
        ELSE
    Let(xor_bytes(self.msg, m.out), LAMBDA data :
    Let(kmac_xof(ka, data, 512, "SKA", d), LAMBDA new_t :
        IF new_t.err
        THEN [self |-> [self EXCEPT !.msg = data], end |-> "param"]
        ELSE IF ~IsSome(self.digest)
        THEN [self |-> [self EXCEPT !.msg = data], end |-> "none"]
        ELSE [self |-> [self EXCEPT !.msg = data,
                           !.op_result = Some(Unwrap(self.digest) = new_t.out)],
              end |-> "ok"]))))))

\* KeyPair::new
KeyPair_new(pw, owner, curve, d) ==
    Let(kmac_xof(pw, <<>>, 512, "K", d), LAMBDA h :
        IF h.err THEN [key |-> None, end |-> "param"]
        ELSE
    Let((bytes_to_big(h.out) * 4) % order(SELECTED_CURVE), LAMBDA s :
    Let(ScalarMul(Generator(curve), s), LAMBDA pub_key :
        [key |-> Some([owner |-> owner, pub_key |-> pub_key,
                       priv_key |-> pw, curve |-> curve]),
         end |-> "ok"])))

\* KeyEncryptable::key_encrypt; rnd is the draw of get_random_bytes
key_encrypt(self, pub_key, d, rnd) ==
    Let((bytes_to_big(get_random_bytes(64, rnd)) * 4) % order(pub_key.curve),
        LAMBDA k :
    Let2(ScalarMul(pub_key, k), ScalarMul(Generator(pub_key.curve), k),
         LAMBDA w, z :
    Let(kmac_xof(big_to_bytes(w.x), <<>>, 1024, "PK", d), LAMBDA ke_ka :
        IF ke_ka.err THEN [self |-> self, end |-> "param"]
        ELSE
    Let2(TakeBytes(ke_ka.out, 64), DropBytes(ke_ka.out, 64), LAMBDA ke, ka :
    Let(kmac_xof(ka, self.msg, 512, "PKA", d), LAMBDA t :
        IF t.err THEN [self |-> self, end |-> "param"]
        ELSE
    Let(kmac_xof(ke, <<>>, ByteLen(self.msg) * 8, "PKE", d), LAMBDA c :
        IF c.err THEN [self |-> self, end |-> "param"]
        ELSE [self |-> [self EXCEPT !.msg = xor_bytes(self.msg, c.out),
                                    !.digest = Some(t.out),
                                    !.asym_nonce = Some(z)],
              end |-> "ok"]))))))

\* KeyEncryptable::key_decrypt
key_decrypt(self, pw, d) ==
    IF ~IsSome(self.asym_nonce) THEN [self |-> self, end |-> "none"]
    ELSE
    Let(Unwrap(self.asym_nonce), LAMBDA z :
    Let(kmac_xof(pw, <<>>, 512, "K", d), LAMBDA h :
        IF h.err THEN [self |-> self, end |-> "param"]
        ELSE
    Let((bytes_to_big(h.out) * 4) % order(z.curve), LAMBDA s :
    Let(ScalarMul(z, s), LAMBDA w :
    Let(kmac_xof(big_to_bytes(w.x), <<>>, 1024, "PK", d), LAMBDA ke_ka :
        IF ke_ka.err THEN [self |-> self, end |-> "param"]
        ELSE
    Let2(TakeBytes(ke_ka.out, 64), DropBytes(ke_ka.out, 64), LAMBDA ke, ka :
    Let(kmac_xof(ke, <<>>, ByteLen(self.msg) * 8, "PKE", d), LAMBDA m :
        IF m.err THEN [self |-> self, end |-> "param"]
        ELSE
    Let(xor_bytes(self.msg, m.out), LAMBDA data :
    Let(kmac_xof(ka, data, 512, "PKA", d), LAMBDA t_p :
        IF t_p.err
        THEN [self |-> [self EXCEPT !.msg = data], end |-> "param"]
        ELSE IF ~IsSome(self.digest)
        THEN [self |-> [self EXCEPT !.msg = data], end |-> "none"]
        ELSE [self |-> [self EXCEPT !.msg = data,
                           !.op_result = Some(t_p.out = Unwrap(self.digest))],
              end |-> "ok"])))))))))

\* Signable::sign; kp is the caller's KeyPair as it is left
sign(self, kp, d) ==
    Let(kmac_xof(kp.priv_key, <<>>, 512, "K", d), LAMBDA h1 :
    Let([kp EXCEPT !.priv_key = h1.arg], LAMBDA kp2 :
        IF h1.err THEN [self |-> self, kp |-> kp2, end |-> "param"]
        ELSE
    Let(bytes_to_big(h1.out) * 4, LAMBDA s :
    Let(kmac_xof(big_to_bytes(s), self.msg, 512, "N", d), LAMBDA k1 :
        IF k1.err THEN [self |-> self, kp |-> kp2, end |-> "param"]
        ELSE
    Let(bytes_to_big(k1.out) * 4, LAMBDA k :
    Let(ScalarMul(Generator(SELECTED_CURVE), k), LAMBDA u :
    Let(kmac_xof(big_to_bytes(u.x), self.msg, 512, "T", d), LAMBDA h2 :
        IF h2.err THEN [self |-> self, kp |-> kp2, end |-> "param"]
        ELSE
    Let2(h2.out, order(u.curve), LAMBDA h, r :
    Let(Rem(Rem(k - (bytes_to_big(h) * s), r) + r, r), LAMBDA z :
        [self |-> [self EXCEPT !.sig = Some([h |-> h, z |-> z])],
         kp |-> kp2, end |-> "ok"])))))))))

\* verify with the signature moved out of the Message (Option::take in
\* place of clone).
verify_taking_sig(self, pub_key, d) ==
    IF ~IsSome(self.sig) THEN [self |-> self, end |-> "none"]
    ELSE
    Let(Unwrap(self.sig), LAMBDA sg :
    Let2(ScalarMul(Generator(pub_key.curve), sg.z),
         ScalarMul(pub_key, bytes_to_big(sg.h)), LAMBDA u1, hv :
    Let(PointAdd(u1, hv), LAMBDA u :
    Let(kmac_xof(big_to_bytes(u.x), self.msg, 512, "T", d), LAMBDA h_p :
        IF h_p.err THEN [self |-> [self EXCEPT !.sig = None], end |-> "param"]
        ELSE [self |-> [self EXCEPT !.sig = None,
                           !.op_result = Some(h_p.out = sg.h)],
              end |-> "ok"]))))

\* Signable::verify
verify(self, pub_key, d) ==
    IF ~IsSome(self.sig) THEN [self |-> self, end |-> "none"]
    ELSE
    Let(Unwrap(self.sig), LAMBDA sg :
    Let2(ScalarMul(Generator(pub_key.curve), sg.z),
         ScalarMul(pub_key, bytes_to_big(sg.h)), LAMBDA u1, hv :
    Let(PointAdd(u1, hv), LAMBDA u :
    Let(kmac_xof(big_to_bytes(u.x), self.msg, 512, "T", d), LAMBDA h_p :
        IF h_p.err THEN [self |-> self, end |-> "param"]
        ELSE [self |-> [self EXCEPT !.op_result = Some(h_p.out = sg.h)],
              end |-> "ok"]))))

----------------------------------------------------------------------------
\* The state machine: one Message, one password buffer and one KeyPair in
\* the hands of a caller that calls the public operations in any order, all
\* with the same security parameter.  A panic ends the run.

\* The messages a run starts with: the empty one and one of MaxMsgLen bytes.
Msgs == {Bytes([i \in 1..n |-> i]) : n \in {0, MaxMsgLen}}

Passwords == {Bytes(<<>>), Bytes(<<112, 119>>)}

\* The supported strengths and one unsupported value.
Ds == HashStrengths \cup {128}

\* Draws of the random source.
Rnds == {1, 2}

\* The bits a tampering carrier flips in a buffer b: the lowest bit of the
\* first byte and the highest bit of the last one, as <<byte, mask>>.
Flips(b) == IF b = <<>> THEN {} ELSE {<<1, 1>>, <<ByteLen(b), 128>>}

NoXof == [fn |-> "", x |-> <<>>, l |-> 0, n |-> "", s |-> "", d |-> 0,
          out |-> <<>>, arg |-> <<>>, err |-> FALSE,
          ref |-> <<>>, refarg |-> <<>>]

NoCodec == [fn |-> "", x |-> 0, y |-> 0, input |-> <<>>, w |-> 1,
            ex |-> <<>>, ey |-> <<>>, out |-> <<>>]

Init ==
    /\ message \in {Message_new(m) : m \in Msgs}
    /\ key = None
    /\ pwbuf \in Passwords
    /\ strength \in Ds
    /\ outcome = "ok"
    /\ hist = <<>>
    /\ xof = NoXof
    /\ codec = NoCodec

Before == [message |-> message, key |-> key, pwbuf |-> pwbuf]

\* One entry of the history of a run: the step, its d, its random draw or
\* byte position, its curve, and the state it started in.
Call(name, d, rnd, curve) ==
    [op |-> name, d |-> d, rnd |-> rnd, curve |-> curve, before |-> Before]

\* What whoever carries the cryptogram may do to it between two operations.
Tampers == {"flip_data", "flip_digest", "replace_data"}

\* The operations performed on the Message so far.
Calls ==
    Cardinality({i \in 1..Len(hist) :
                    hist[i].op \notin Tampers \cup {"KeyPair::new"}})

\* A panic ends the run.
CanCall == outcome = "ok" /\ Calls < MaxOps

ComputeSha3Hash ==
    /\ CanCall
    /\ \E r \in {compute_sha3_hash(message, strength)} :
           /\ message' = r.self
           /\ outcome' = r.end
    /\ hist' = Append(hist, Call("compute_sha3_hash", strength, 0, ""))
    /\ UNCHANGED <<key, pwbuf, strength, xof, codec>>

ComputeTaggedHash ==
    /\ CanCall
    /\ \E r \in {compute_tagged_hash(message, pwbuf, "T", strength)} :
           /\ message' = r.self
           /\ pwbuf' = r.pw
           /\ outcome' = r.end
    /\ hist' = Append(hist, Call("compute_tagged_hash", strength, 0, ""))
    /\ UNCHANGED <<key, strength, xof, codec>>

PwEncrypt ==
    /\ CanCall
    /\ \E rnd \in Rnds :
         /\ \E r \in {pw_encrypt(message, pwbuf, strength, rnd)} :
                /\ message' = r.self
                /\ outcome' = r.end
         /\ hist' = Append(hist, Call("pw_encrypt", strength, rnd, ""))
    /\ UNCHANGED <<key, pwbuf, strength, xof, codec>>

PwDecrypt ==
    /\ CanCall
    /\ \E r \in {pw_decrypt(message, pwbuf, strength)} :
           /\ message' = r.self
           /\ outcome' = r.end
    /\ hist' = Append(hist, Call("pw_decrypt", strength, 0, ""))
    /\ UNCHANGED <<key, pwbuf, strength, xof, codec>>

\* A run that uses a key pair generates it first: at the strength of the run
\* or, where the library rejects that one, at 256 as well (so that a run at a
\* rejected strength can hold a key pair).
KeyStrengths == IF strength \in {256, 512} THEN {strength} ELSE {strength, 256}

KeyPairNew ==
    /\ CanCall
    /\ hist = <<>>
    /\ \E curve \in Curves, d \in KeyStrengths :
         /\ \E r \in {KeyPair_new(pwbuf, "test key", curve, d)} :
                /\ key' = IF r.end = "ok" THEN r.key ELSE key
                /\ outcome' = r.end
         /\ hist' = Append(hist, Call("KeyPair::new", d, 0, curve))
    /\ UNCHANGED <<message, pwbuf, strength, xof, codec>>

KeyEncrypt ==
    /\ CanCall
    /\ IsSome(key)
    /\ \E rnd \in Rnds :
         /\ \E r \in {key_encrypt(message, Unwrap(key).pub_key, strength, rnd)} :
                /\ message' = r.self
                /\ outcome' = r.end
         /\ hist' = Append(hist, Call("key_encrypt", strength, rnd, ""))
    /\ UNCHANGED <<key, pwbuf, strength, xof, codec>>

KeyDecrypt ==
    /\ CanCall
    /\ IsSome(key)
    /\ \E r \in {key_decrypt(message, Unwrap(key).priv_key, strength)} :
           /\ message' = r.self
           /\ outcome' = r.end
    /\ hist' = Append(hist, Call("key_decrypt", strength, 0, ""))
    /\ UNCHANGED <<key, pwbuf, strength, xof, codec>>

Sign ==
    /\ CanCall
    /\ IsSome(key)
    /\ \E r \in {sign(message, Unwrap(key), strength)} :
           /\ message' = r.self
           /\ key' = Some(r.kp)
           /\ outcome' = r.end
    /\ hist' = Append(hist, Call("sign", strength, 0, ""))
    /\ UNCHANGED <<pwbuf, strength, xof, codec>>

Verify ==
    /\ CanCall
    /\ IsSome(key)
    /\ \E r \in {verify(message, Unwrap(key).pub_key, strength)} :
           /\ message' = r.self
           /\ outcome' = r.end
    /\ hist' = Append(hist, Call("verify", strength, 0, ""))
    /\ UNCHANGED <<key, pwbuf, strength, xof, codec>>

\* Whoever carries a cryptogram or a signed message tampers with its public
\* fields right after the operation that produced it, once in a run.
After(ops) ==
    /\ CanCall
    /\ hist # <<>>
    /\ hist[Len(hist)].op \in ops
    /\ \A i \in 1..Len(hist) : hist[i].op \notin Tampers

\* b with byte i (from 1) XORed with mask
FlipByte(b, i, mask) ==
    Let(DropBytes(TakeBytes(b, i), i - 1)[1], LAMBDA e :
        Concat(Concat(TakeBytes(b, i - 1), <<Run(BXor(e.v, mask), e.ks, 1)>>),
               DropBytes(b, i)))

FlipData ==
    /\ After({"pw_encrypt", "key_encrypt"})
    /\ \E f \in Flips(message.msg) :
         /\ message' = [message EXCEPT !.msg = FlipByte(message.msg, f[1], f[2])]
         /\ hist' = Append(hist, Call("flip_data", 0, f[1], ""))
    /\ UNCHANGED <<key, pwbuf, strength, outcome, xof, codec>>

FlipDigest ==
    /\ After({"pw_encrypt", "key_encrypt"})
    /\ IsSome(message.digest)
    /\ \E f \in Flips(Unwrap(message.digest)) :
         /\ message' = [message EXCEPT
                          !.digest = Some(FlipByte(Unwrap(message.digest), f[1], f[2]))]
         /\ hist' = Append(hist, Call("flip_digest", 0, f[1], ""))
    /\ UNCHANGED <<key, pwbuf, strength, outcome, xof, codec>>

ReplaceData ==
    /\ After({"sign"})
    /\ \E m \in Msgs :
         /\ m # message.msg
         /\ message' = [message EXCEPT !.msg = m]
         /\ hist' = Append(hist, Call("replace_data", 0, 0, ""))
    /\ UNCHANGED <<key, pwbuf, strength, outcome, xof, codec>>

Next ==
    \/ ComputeSha3Hash
    \/ ComputeTaggedHash
    \/ PwEncrypt
    \/ PwDecrypt
    \/ KeyPairNew
    \/ KeyEncrypt
    \/ KeyDecrypt
    \/ Sign
    \/ Verify
    \/ FlipData
    \/ FlipDigest
    \/ ReplaceData

Spec == Init /\ [][Next]_vars

----------------------------------------------------------------------------
\* The XOFs as pure functions: a run starts with the arguments of one call
\* and the one step applies shake or cshake to them.

\* n bytes 0x07
Sevens(n) == IF n = 0 THEN <<>> ELSE <<Run(7, {}, n)>>

\* The rate in bytes of the sponge shake(n, d) absorbs into: its capacity is
\* 2 * d of the 1600 bits of the state.
ShakeRate(d) == (1600 - (2 * d)) \div 8

\* The strings x a call is made on: the short ones, and the ones one byte
\* short of a block at the rate of a supported d.
XofInputs ==
    {Bytes(b) : b \in UNION {[1..n -> {0, 7}] : n \in 0..MaxMsgLen}}
        \cup {Sevens(ShakeRate(d) - 1) : d \in HashStrengths}

\* Output lengths in bits (shake takes its d as the output length).
XofLengths == HashStrengths

\* Function-name and customization strings.
XofNames == {"", "T"}

InitXof ==
    /\ message = Message_new(<<>>)
    /\ key = None
    /\ pwbuf = <<>>
    /\ strength = 256
    /\ outcome = "ok"
    /\ hist = <<>>
    /\ xof \in {[NoXof EXCEPT !.x = x, !.l = l, !.n = n, !.s = s, !.d = d] :
                   x \in XofInputs, l \in XofLengths,
                   n \in XofNames, s \in XofNames, d \in Ds}
    /\ codec = NoCodec

\* shake(x, l) on its own
Shake ==
    /\ xof.fn = ""
    /\ \E r \in {shake(xof.x, xof.l)} :
           xof' = [xof EXCEPT !.fn = "shake", !.out = r.out, !.arg = r.arg,
                              !.err = r.err]
    /\ UNCHANGED <<message, key, pwbuf, strength, outcome, hist, codec>>

\* cshake(x, l, n, s, d), with what shake(x, l) gives on the same x kept
\* beside it
CShake ==
    /\ xof.fn = ""
    /\ \E r \in {cshake(xof.x, xof.l, xof.n, xof.s, xof.d)},
          ref \in {shake(xof.x, xof.l)} :
           xof' = [xof EXCEPT !.fn = "cshake", !.out = r.out, !.arg = r.arg,
                              !.err = r.err, !.ref = ref.out,
                              !.refarg = ref.arg]
    /\ UNCHANGED <<message, key, pwbuf, strength, outcome, hist, codec>>

NextXof ==
    \/ Shake
    \/ CShake

SpecXof == InitXof /\ [][NextXof]_vars

----------------------------------------------------------------------------
\* The SP 800-185 encodings as pure functions: a run starts with the
\* arguments of one call and the one step applies a function to them.

\* The integers encoded: zero, and the ends of the ranges that take one, two,
\* three and four bytes.
EncodeValues == {0, 1, 2, 255, 256, 65535, 65536, 16777216, 2147483647}

\* The strings padded: short ones, and the ones that fill a block of 136 or
\* of 168 bytes together with the two bytes of left_encode(w).
PadInputs == {Sevens(n) : n \in {0, 1, 2, 134, 166}}

\* The block lengths w padded to: small ones and the two kmac_xof uses.
PadWidths == {1, 3, 4, 136, 168}

InitCodec ==
    /\ message = Message_new(<<>>)
    /\ key = None
    /\ pwbuf = <<>>
    /\ strength = 256
    /\ outcome = "ok"
    /\ hist = <<>>
    /\ xof = NoXof
    /\ codec \in {[NoCodec EXCEPT !.x = x, !.y = y] :
                     x \in EncodeValues, y \in EncodeValues}
                 \cup {[NoCodec EXCEPT !.input = i, !.w = w] :
                          i \in PadInputs, w \in PadWidths}

\* left_encode on two integers
LeftEncode ==
    /\ codec.fn = ""
    /\ codec' = [codec EXCEPT !.fn = "left_encode",
                               !.ex = left_encode(codec.x),
                               !.ey = left_encode(codec.y)]
    /\ UNCHANGED <<message, key, pwbuf, strength, outcome, hist, xof>>

\* right_encode on two integers
RightEncode ==
    /\ codec.fn = ""
    /\ codec' = [codec EXCEPT !.fn = "right_encode",
                               !.ex = right_encode(codec.x),
                               !.ey = right_encode(codec.y)]
    /\ UNCHANGED <<message, key, pwbuf, strength, outcome, hist, xof>>

\* byte_pad(input, w)
BytePad ==
    /\ codec.fn = ""
    /\ codec' = [codec EXCEPT !.fn = "byte_pad",
                               !.out = byte_pad(codec.input, codec.w)]
    /\ UNCHANGED <<message, key, pwbuf, strength, outcome, hist, xof>>

NextCodec ==
    \/ LeftEncode
    \/ RightEncode
    \/ BytePad

SpecCodec == InitCodec /\ [][NextCodec]_vars

----------------------------------------------------------------------------
\* Properties.

\* The k-th step back from the last one, the last one being Step(0).
Step(k) == hist[Len(hist) - k]

\* The run's last steps were these, in this order.
Ran(ops) ==
    /\ Len(hist) >= Len(ops)
    /\ \A i \in 1..Len(ops) : hist[Len(hist) - Len(ops) + i].op = ops[i]

\* The Message as it was before the last n steps.
MessageBefore(n) == Step(n - 1).before.message

\* The run generated its key pair at the strength it runs its operations at.
KeyPairAtStrength ==
    /\ hist # <<>>
    /\ hist[1].op = "KeyPair::new"
    /\ hist[1].d = strength

\* C1: symmetric round trip.  At every d in {224, 256, 384, 512}, pw_encrypt
\* completes without a parameter error, and pw_decrypt right after it under
\* the same password and d completes as well, with data back to the
\* plaintext m and op_result = Some(true).
C1_SymmetricRoundTrip ==
    strength \in HashStrengths =>
        /\ Ran(<<"pw_encrypt">>) => outcome = "ok"
        /\ Ran(<<"pw_encrypt", "pw_decrypt">>) =>
               /\ outcome = "ok"
               /\ message.msg = MessageBefore(2).msg
               /\ message.op_result = Some(TRUE)

\* C2: public-key round trip.  With a key pair generated by KeyPair::new on
\* either curve at the d of the run, key_encrypt under its public key
\* followed by key_decrypt under its private key ends with data back to
\* the plaintext m and op_result = Some(true).
C2_PublicKeyRoundTrip ==
    (KeyPairAtStrength /\ Ran(<<"key_encrypt", "key_decrypt">>)) =>
        /\ outcome = "ok"
        /\ message.msg = MessageBefore(2).msg
        /\ message.op_result = Some(TRUE)

\* C3: signature correctness.  With a key pair generated by KeyPair::new at
\* the d of the run, sign followed by verify under the public key, on the
\* unmodified Message, sets op_result = Some(true).
C3_SignatureCorrectness ==
    (KeyPairAtStrength /\ Ran(<<"sign", "verify">>)) =>
        /\ outcome = "ok"
        /\ message.op_result = Some(TRUE)

\* C4: a signature does not verify for another message.  When a Message is
\* signed, its data is then replaced by different data (the signature
\* kept) and verify runs under the signer's public key, verify sets
\* op_result = Some(false).
C4_ReplacedMessageDoesNotVerify ==
    Ran(<<"sign", "replace_data", "verify">>) =>
        /\ outcome = "ok"
        /\ message.op_result = Some(FALSE)

\* C4 happens: a Message signed under a key pair of the selected curve (for
\* which the unmodified Message verifies) had its data replaced and was
\* verified, with Some(false) for a result.
C4_Witness ==
    /\ Ran(<<"sign", "replace_data", "verify">>)
    /\ Unwrap(key).curve = SELECTED_CURVE
    /\ message.msg # MessageBefore(2).msg
    /\ message.op_result = Some(FALSE)

\* C5: tamper detection.  When one bit of the ciphertext or of the tag is
\* flipped after pw_encrypt or key_encrypt and the matching decrypt runs,
\* the decrypt returns (it raises nothing) with op_result = Some(false).
C5_TamperDetected ==
    \A t \in {"flip_data", "flip_digest"} :
        (\/ Ran(<<"pw_encrypt", t, "pw_decrypt">>)
         \/ Ran(<<"key_encrypt", t, "key_decrypt">>)) =>
            /\ outcome = "ok"
            /\ message.op_result = Some(FALSE)

\* C5 happens: a bit of a symmetric ciphertext was flipped and pw_decrypt
\* then reported Some(false).
C5_Witness ==
    /\ Ran(<<"pw_encrypt", "flip_data", "pw_decrypt">>)
    /\ outcome = "ok"
    /\ message.op_result = Some(FALSE)

\* C6: parameter errors mutate nothing.  When an operation fails with the
\* parameter error, every field of the Message, the KeyPair and the password
\* buffer are as they were before the call.
C6_ParameterErrorMutatesNothing ==
    outcome = "param" =>
        /\ message = Step(0).before.message
        /\ key = Step(0).before.key
        /\ pwbuf = Step(0).before.pwbuf

\* C7: cshake with both n and s empty is SHAKE.  At a d that cshake accepts,
\* cshake(x, l, "", "", d) returns the bytes shake(x, l) returns on the
\* same x.
C7_CShakeEmptyIsShake ==
    (xof.fn = "cshake" /\ xof.n = "" /\ xof.s = "" /\ xof.d \in {256, 512}) =>
        /\ ~xof.err
        /\ xof.out = xof.ref

\* C8: the symmetric nonce is 64 bytes.  After pw_encrypt has returned,
\* sym_nonce holds exactly 64 bytes and digest holds exactly 64 bytes.
C8_NonceIs64Bytes ==
    (Ran(<<"pw_encrypt">>) /\ outcome = "ok") =>
        /\ IsSome(message.sym_nonce)
        /\ ByteLen(Unwrap(message.sym_nonce)) = 64
        /\ IsSome(message.digest)
        /\ ByteLen(Unwrap(message.digest)) = 64

\* The keys ke || ka pw_encrypt derives from the nonce z and the password.
SymKeys(z) == kmac_xof(Concat(z, pwbuf), <<>>, 1024, "S", strength).out

\* The keys ke || ka key_encrypt derives under the public key V with the
\* random draw rnd.
AsymKeys(V, rnd) ==
    LET k == (bytes_to_big(get_random_bytes(64, rnd)) * 4) % order(V.curve)
    IN  kmac_xof(big_to_bytes(ScalarMul(V, k).x), <<>>, 1024, "PK", strength).out

\* The Message relates to the plaintext m as an encryption under the keys
\* ke || ka with the domain strings enc and auth leaves it: data is m XOR
\* the keystream, of the length of m, and digest is the tag over m.
Encrypted(m, ke_ka, enc, auth) ==
    /\ IsSome(message.digest)
    /\ ByteLen(message.msg) = ByteLen(m)
    /\ message.msg =
           xor_bytes(m, kmac_xof(TakeBytes(ke_ka, 64), <<>>, ByteLen(m) * 8,
                                 enc, strength).out)
    /\ Unwrap(message.digest) =
           kmac_xof(DropBytes(ke_ka, 64), m, 512, auth, strength).out

\* C9: the Message after an encryption.  After pw_encrypt, sym_nonce and
\* digest are present; after key_encrypt, asym_nonce and digest are
\* present; in both cases data has the length of the plaintext and equals
\* plaintext XOR keystream, and digest is the tag over the plaintext, not
\* over the ciphertext.
C9_PostEncryptionInvariant ==
    /\ (Ran(<<"pw_encrypt">>) /\ outcome = "ok") =>
           /\ IsSome(message.sym_nonce)
           /\ Encrypted(MessageBefore(1).msg,
                        SymKeys(Unwrap(message.sym_nonce)), "SKE", "SKA")
    /\ (Ran(<<"key_encrypt">>) /\ outcome = "ok") =>
           /\ IsSome(message.asym_nonce)
           /\ Encrypted(MessageBefore(1).msg,
                        AsymKeys(Unwrap(key).pub_key, Step(0).rnd), "PKE", "PKA")

\* C9 happens: pw_encrypt has returned on a Message that held a non-empty
\* plaintext, which the ciphertext differs from.
C9_Witness ==
    /\ Ran(<<"pw_encrypt">>)
    /\ outcome = "ok"
    /\ MessageBefore(1).msg # <<>>
    /\ message.msg # MessageBefore(1).msg

\* The fields of the Message an operation may write.
Outputs(op) ==
    CASE op = "pw_encrypt" -> {"msg", "digest", "sym_nonce"}
      [] op = "key_encrypt" -> {"msg", "digest", "asym_nonce"}
      [] op \in {"pw_decrypt", "key_decrypt"} -> {"msg", "op_result"}
      [] op = "sign" -> {"sig"}
      [] op = "verify" -> {"op_result"}

\* C10: the frame of the facade.  Each of pw_encrypt, pw_decrypt,
\* key_encrypt, key_decrypt, sign and verify changes no field of the
\* Message but its own outputs, and no optional field that was Some before
\* the call is None after it.
C10_FacadeFrame ==
    (hist # <<>> /\ Step(0).op \in {"pw_encrypt", "pw_decrypt", "key_encrypt",
                                     "key_decrypt", "sign", "verify"}) =>
        /\ \A f \in DOMAIN message :
               message[f] # MessageBefore(1)[f] => f \in Outputs(Step(0).op)
        /\ \A f \in DOMAIN message \ {"msg"} :
               IsSome(MessageBefore(1)[f]) => IsSome(message[f])

\* C10 happens: verify has returned on a signed Message, which still holds
\* its signature and its data.
C10_Witness ==
    /\ Ran(<<"sign", "verify">>)
    /\ outcome = "ok"
    /\ IsSome(message.sig)
    /\ IsSome(message.op_result)
    /\ message.msg = MessageBefore(2).msg
    /\ message.msg # <<>>

\* C11: compute_sha3_hash does not consume its input.  A call at a supported d
\* replaces only digest and leaves the data bytes of the Message as they were
\* before the call, so a second call right after the first one yields the
\* digest the first one yielded.
C11_HashKeepsInput ==
    /\ (Ran(<<"compute_sha3_hash">>) /\ outcome = "ok") =>
           \A f \in DOMAIN message \ {"digest"} : message[f] = MessageBefore(1)[f]
    /\ (Ran(<<"compute_sha3_hash", "compute_sha3_hash">>) /\ outcome = "ok") =>
           message.digest = MessageBefore(1).digest

\* C12: key pair derivation matches its curve.  The key pair KeyPair::new
\* returns records the curve it was given, and its pub_key is s * G for
\* s = (4 * bytes_to_int(KMAC-XOF(pw, "", 512, "K", d))) mod r, G and r being
\* the generator and the subgroup order of that curve.
C12_KeyPairMatchesCurve ==
    (Ran(<<"KeyPair::new">>) /\ outcome = "ok") =>
        /\ IsSome(key)
        /\ Unwrap(key).curve = Step(0).curve
        /\ Unwrap(key).pub_key =
               ScalarMul(Generator(Step(0).curve),
                         (4 * bytes_to_big(kmac_xof(Step(0).before.pwbuf, <<>>, 512,
                                                    "K", Step(0).d).out))
                             % order(Step(0).curve))

\* The big-endian bytes of a nonzero x with the leading zero bytes stripped.
Stripped(x) == StripLeadingZeros(BigEndian(x, 8))

\* C13: left_encode and right_encode are injective: different integers have
\* different encodings.  For x # 0, right_encode(x) is x in big-endian with
\* the leading zero bytes stripped followed by one byte holding the stripped
\* length, and left_encode(x) is the same bytes preceded by that length byte;
\* the encodings are 2 to 9 bytes long.
C13_EncodingsInjective ==
    /\ codec.fn \in {"left_encode", "right_encode"} =>
           /\ codec.x # codec.y => codec.ex # codec.ey
           /\ Len(codec.ex) \in 2..9
    /\ (codec.fn = "left_encode" /\ codec.x # 0) =>
           codec.ex = <<Len(Stripped(codec.x))>> \o Stripped(codec.x)
    /\ (codec.fn = "right_encode" /\ codec.x # 0) =>
           codec.ex = Stripped(codec.x) \o <<Len(Stripped(codec.x))>>

\* C14: byte_pad(x, w), w > 0, is left_encode(w) || x followed only by zero
\* bytes, as many as take the length to the smallest positive multiple of w
\* that is at least |left_encode(w)| + |x|: none when that length is a
\* multiple of w already.
C14_BytePadToMultiple ==
    codec.fn = "byte_pad" =>
        LET z == Concat(Bytes(left_encode(codec.w)), codec.input)
            total == ((ByteLen(z) + codec.w - 1) \div codec.w) * codec.w
        IN  codec.out = Concat(z, Zeros(total - ByteLen(z)))

\* C15: the suffix shake appends follows the rate of the chosen strength.
\* For every d in {224, 256, 384, 512} and every input n, shake(n, d)
\* appends 0x86 when n is one byte short of a whole number of blocks of
\* (1600 - 2d) / 8 bytes, and 0x06 otherwise.
C15_ShakeSuffixFollowsRate ==
    (xof.fn = "shake" /\ xof.l \in HashStrengths) =>
        xof.arg = Concat(xof.x,
                         IF ByteLen(xof.x) % ShakeRate(xof.l) = ShakeRate(xof.l) - 1
                         THEN Bytes(<<134>>)
                         ELSE Bytes(<<6>>))

\* C16 as claimed: a second symmetric decrypt attempt still works.  After
\* pw_encrypt, pw_decrypt twice in a row under the same password and d
\* leaves sym_nonce equal to the nonce chosen at encryption, and the second
\* call ends with op_result = Some(true) as well.
C16_SecondDecryptVerifies ==
    Ran(<<"pw_encrypt", "pw_decrypt", "pw_decrypt">>) =>
        /\ outcome = "ok"
        /\ message.sym_nonce = MessageBefore(2).sym_nonce
        /\ message.op_result = Some(TRUE)

\* C16 as amended: pw_decrypt works on a copy of the stored nonce.  After
\* pw_encrypt, pw_decrypt twice in a row under the same password and d
\* leaves sym_nonce equal to the nonce chosen at encryption and digest equal
\* to the tag stored at encryption; the first call ends with
\* op_result = Some(true), and the second call, which runs on the plaintext
\* the first one left in data, XORs the same keystream into it: data is the
\* ciphertext again, and op_result is Some(true) if the message is empty.
C16_SecondDecryptKeepsNonce ==
    Ran(<<"pw_encrypt", "pw_decrypt", "pw_decrypt">>) =>
        /\ outcome = "ok"
        /\ message.sym_nonce = MessageBefore(2).sym_nonce
        /\ message.digest = MessageBefore(2).digest
        /\ MessageBefore(1).op_result = Some(TRUE)
        /\ message.msg = MessageBefore(2).msg
        /\ message.msg = <<>> => message.op_result = Some(TRUE)

C16_Witness ==
    /\ Ran(<<"pw_encrypt", "pw_decrypt", "pw_decrypt">>)
    /\ outcome = "ok"
    /\ pwbuf # <<>>
    /\ IsSome(message.sym_nonce)
    /\ message.msg # <<>>
    /\ message.msg # MessageBefore(1).msg
    /\ message.op_result = Some(FALSE)

\* C17: signing does not change the key.  sign leaves every field of the
\* KeyPair it is given as it was (priv_key in particular); signing the same
\* message twice with the same KeyPair gives the same signature (h, z); and
\* the signature of a second sign with a key pair of the selected curve,
\* generated at the strength of the run, verifies under its pub_key.
C17_SignKeepsKey ==
    /\ (Ran(<<"sign">>) /\ outcome = "ok") => key = Step(0).before.key
    /\ (Ran(<<"sign", "sign">>) /\ outcome = "ok") =>
           message.sig = MessageBefore(1).sig
    /\ (/\ Ran(<<"sign", "sign", "verify">>)
        /\ outcome = "ok"
        /\ KeyPairAtStrength
        /\ Unwrap(key).curve = SELECTED_CURVE) => message.op_result = Some(TRUE)

====
